---- MODULE Spec2Model ----
(***************************************************************************)
(* A model of the ruvnet/aws-dev services.                                 *)
(*                                                                         *)
(*   - scripts/hr.py: the HR demo, an in-memory dict of employee records   *)
(*     behind four FastAPI endpoints (SpecHR).                             *)
(*   - deployment/aws/deploy.py and deployment/deploy_script.py: the       *)
(*     deployment endpoints, modelled step by step with the outcome of     *)
(*     every external command and provider call chosen by the              *)
(*     environment (SpecDeploy).                                           *)
(***************************************************************************)
EXTENDS Integers, Sequences, FiniteSets, TLC

(***************************************************************************)
(* Bounds of the model.                                                    *)
(***************************************************************************)
\* number of employee ids, beyond the two sample ids, that requests may name
MaxNewIds == 2

(***************************************************************************)
(* HR demo: values                                                         *)
(***************************************************************************)
\* emp_id is a str in the code; only equality of ids matters, so the digit
\* strings "101", "102", "103", ... are written as the numbers they spell.
SampleIds == {101, 102}
EmpIds == 101..(102 + MaxNewIds)

NewNames == {"Carol Lee"}
NewPositions == {"Analyst"}
Salaries == {40000, 55000}
NewPerformances == {"Average"}
UpdatePerformances == {"Good", "Poor"}

\* class Employee(BaseModel): the bodies that pass validation
Employee == [name : NewNames, position : NewPositions,
             salary : Salaries, performance : NewPerformances]

\* class UpdatePerformance(BaseModel)
UpdatePerformance == [performance : UpdatePerformances]

\* the module-level dict literal: a Python dict keeps its keys in insertion
\* order, so it is a sequence of key/value entries with distinct keys
SampleData ==
    << [key |-> 101,
        val |-> [name |-> "Alice Johnson", position |-> "Manager",
                 salary |-> 60000, performance |-> "Excellent"]],
       [key |-> 102,
        val |-> [name |-> "Bob Smith", position |-> "Developer",
                 salary |-> 50000, performance |-> "Good"]] >>

NoRequest == [op |-> "none"]
NoResponse == [status |-> 0]

(***************************************************************************)
(* Python dict operations                                                  *)
(***************************************************************************)
\* k in d
DictHas(d, k) == \E i \in 1..Len(d) : d[i].key = k

\* d[k], for k in d
DictGet(d, k) == d[CHOOSE i \in 1..Len(d) : d[i].key = k].val

\* d[k] = v : replaces the value of an existing key in place, appends a new key
DictSet(d, k, v) ==
    IF DictHas(d, k)
    THEN [i \in 1..Len(d) |-> IF d[i].key = k THEN [key |-> k, val |-> v] ELSE d[i]]
    ELSE Append(d, [key |-> k, val |-> v])

\* d.keys(), as a set
DictKeys(d) == {d[i].key : i \in 1..Len(d)}

(***************************************************************************)
(* Deployment services: values                                             *)
(***************************************************************************)
\* number of distinct python_script bodies that requests may submit
MaxScripts == 2
\* largest number_of_functions a request may ask for
MaxFunctions == 3

\* the two AWS services: deployment/aws/deploy.py and deployment/deploy_script.py
Services == {"aws/deploy.py", "deploy_script.py"}

Scripts == 1..MaxScripts
VpcIds == {"None", "vpc-1"}
Arns == {"arn-1", "arn-2"}

\* class DeployRequest(BaseModel)
DeployRequest ==
    [endpoint : {"deploy"}, service : Services, python_script : Scripts,
     vpc_id : VpcIds]

\* class AdvancedDeployRequest(BaseModel), with the uploaded files
AdvancedDeployRequest ==
    [endpoint : {"advanced_deploy"}, service : Services, upload : Scripts,
     vpc_id : VpcIds]

\* class FunctionConfig(BaseModel); only aws/deploy.py has the endpoint
FunctionConfig ==
    [endpoint : {"deploy_multiple_functions"}, service : {"aws/deploy.py"},
     number_of_functions : 0..MaxFunctions]

\* the endpoints made of one provider call inside try/except
SimpleEndpoints == {"delete_lambda_function", "list_ecr_repositories"}
SimpleRequest == [endpoint : SimpleEndpoints, service : Services]

\* class InvokeConfig(BaseModel); only aws/deploy.py has the endpoint
InvokeConfig ==
    [endpoint : {"invoke_multiple_functions"}, service : {"aws/deploy.py"},
     number_of_functions : 0..MaxFunctions]

\* class FunctionConfig(BaseModel) of gcp/deploy.py, posted to its
\* /deploy-multiple-functions
GcpFunctionConfig ==
    [endpoint : {"gcp_deploy_multiple_functions"}, service : {"gcp/deploy.py"},
     number_of_functions : 0..MaxFunctions]

\* the payloads a Lambda function may answer with
Payloads == {"payload-1", "payload-2"}

\* json.loads(response['Payload'].read().decode('utf-8'))
Decoded(payload) == <<"json", payload>>

\* f"{ecr_uri}/{image_name}" with ecr_uri = f"{account_id}.dkr.ecr.{region}.amazonaws.com"
\* and image_name = f"{request.repository_name}:{request.image_tag}"
ImageUri(account_id, region, repository_name, image_tag) ==
    <<account_id, ".dkr.ecr.", region, ".amazonaws.com/", repository_name, ":", image_tag>>

\* the Python exception classes the steps raise, and their base classes
ExceptionBases ==
    [CalledProcessError |-> {"CalledProcessError", "Exception"},
     OSError |-> {"OSError", "Exception"},
     AttributeError |-> {"AttributeError", "Exception"},
     HTTPException |-> {"HTTPException", "Exception"},
     ClientError |-> {"ClientError", "Exception"},
     BotoCoreError |-> {"BotoCoreError", "Exception"},
     RepositoryAlreadyExistsException |->
         {"RepositoryAlreadyExistsException", "ClientError", "Exception"},
     ResourceConflictException |->
         {"ResourceConflictException", "ClientError", "Exception"},
     NoSuchEntityException |->
         {"NoSuchEntityException", "ClientError", "Exception"},
     ResourceNotFoundException |->
         {"ResourceNotFoundException", "ClientError", "Exception"},
     NameError |-> {"NameError", "Exception"},
     ValueError |-> {"ValueError", "Exception"}]

\* isinstance(e, cls)
IsInstance(e, cls) == cls \in ExceptionBases[e.type]

\* an exception raised by a command, a file operation or the provider SDK
Exc(type) == [type |-> type, detail |-> <<>>]

\* HTTPException(status_code=500, detail=...) raised by the handler itself
HTTPException(detail) == [type |-> "HTTPException", detail |-> <<detail>>]

\* str(e): the text of the exception
Str(e) == <<"str", e.type>> \o e.detail

NoExc == [type |-> "none", detail |-> <<>>]
NoDeployRequest == [endpoint |-> "none", service |-> "none"]
NoLocals == [account_id |-> <<>>, image |-> <<>>, response |-> <<>>, responses |-> <<>>,
             i |-> 0, exc |-> NoExc]

FileNames == {"venv", "app.py", "requirements.txt", "Dockerfile", "upload"}
NoFiles == [f \in FileNames |-> <<>>]

VARIABLES
    employees,   \* hr.py: the module-level dict
    hr_req,      \* the HR request served last
    hr_resp,     \* the response to it
    added,       \* history: emp_id -> the record submitted by the successful add_employee
    updated,     \* history: emp_id -> the performance of the latest successful update_performance
    d_req,       \* the deployment request being served
    d_pc,        \* the position of its handler: "idle", a step, "done"
    d_local,     \* the local variables of the handler
    d_trace,     \* the commands and provider calls made for the request, in order
    d_resp,      \* the response to the request
    files,       \* the working directory of the server process
    server,      \* two requests in one process: the service the process runs
    tasks,       \* the task of each request: its request, position, image, status
    running,     \* the task the event loop is executing, 0 when it is free
    cwd          \* the working directory, with the task that wrote each file

hrVars == <<employees, hr_req, hr_resp, added, updated>>

depVars == <<d_req, d_pc, d_local, d_trace, d_resp, files>>

concVars == <<server, tasks, running, cwd>>

vars == <<employees, hr_req, hr_resp, added, updated,
          d_req, d_pc, d_local, d_trace, d_resp, files,
          server, tasks, running, cwd>>

(***************************************************************************)
(* HR demo: endpoints                                                      *)
(***************************************************************************)
\* a mutation: the existence check is dropped
add_employee_overwrite(emp_id, employee) ==
    /\ employees' = DictSet(employees, emp_id, employee)
    /\ hr_resp' = [status |-> 200,
                   message |-> <<"Employee ", employee.name, " added successfully!">>]

\* @app.post("/add_employee/")
add_employee(emp_id, employee) ==
    IF DictHas(employees, emp_id)
    THEN /\ hr_resp' = [status |-> 400, detail |-> "Employee ID already exists"]
         /\ employees' = employees
    ELSE /\ employees' = DictSet(employees, emp_id, employee)
         /\ hr_resp' = [status |-> 200,
                        message |-> <<"Employee ", employee.name, " added successfully!">>]

\* a mutation: an unknown id is answered with an empty record
view_employee_lenient(emp_id) ==
    /\ employees' = employees
    /\ hr_resp' = IF DictHas(employees, emp_id)
                  THEN [status |-> 200, body |-> DictGet(employees, emp_id)]
                  ELSE [status |-> 200, body |-> [name |-> "", position |-> "",
                                                  salary |-> 0, performance |-> ""]]

\* @app.get("/view_employee/{emp_id}")
view_employee(emp_id) ==
    /\ employees' = employees
    /\ hr_resp' = IF DictHas(employees, emp_id)
                  THEN [status |-> 200, body |-> DictGet(employees, emp_id)]
                  ELSE [status |-> 404, detail |-> "Employee not found"]

\* a mutation: the whole record is replaced by the update body
update_performance_replace(emp_id, update) ==
    IF DictHas(employees, emp_id)
    THEN /\ employees' = DictSet(employees, emp_id,
                 [name |-> "", position |-> "", salary |-> 0,
                  performance |-> update.performance])
         /\ hr_resp' = [status |-> 200,
                        message |-> <<"Performance for Employee ID ", emp_id,
                                      " updated to ", update.performance>>]
    ELSE /\ employees' = employees
         /\ hr_resp' = [status |-> 404, detail |-> "Employee not found"]

\* @app.put("/update_performance/{emp_id}")
update_performance(emp_id, update) ==
    IF DictHas(employees, emp_id)
    THEN /\ employees' = DictSet(employees, emp_id,
                 [DictGet(employees, emp_id) EXCEPT !.performance = update.performance])
         /\ hr_resp' = [status |-> 200,
                        message |-> <<"Performance for Employee ID ", emp_id,
                                      " updated to ", update.performance>>]
    ELSE /\ employees' = employees
         /\ hr_resp' = [status |-> 404, detail |-> "Employee not found"]

\* the loop of calculate_payroll over employees.items(): the lines written so
\* far and the running total after the first n entries
RECURSIVE PayrollLoop(_, _)
PayrollLoop(d, n) ==
    IF n = 0
    THEN [lines |-> << >>, total |-> 0]
    ELSE LET acc == PayrollLoop(d, n - 1)
         IN  [lines |-> Append(acc.lines,
                               [id |-> d[n].key, name |-> d[n].val.name,
                                salary |-> d[n].val.salary]),
              total |-> acc.total + d[n].val.salary]

\* a mutation: the loop stops one entry short
PayrollInfo_short(d) == PayrollLoop(d, IF Len(d) > 2 THEN Len(d) - 1 ELSE Len(d))

\* the payroll text: one line per entry, then "Total Payroll: <total>"
PayrollInfo(d) == PayrollLoop(d, Len(d))

\* @app.get("/calculate_payroll/")
calculate_payroll ==
    /\ employees' = employees
    /\ hr_resp' = [status |-> 200, payroll |-> PayrollInfo(employees)]

(***************************************************************************)
(* HR demo: the requests a client can make, and the process restart        *)
(***************************************************************************)
AddEmployee ==
    \E emp_id \in EmpIds, employee \in Employee :
        /\ add_employee(emp_id, employee)
        /\ hr_req' = [op |-> "add_employee", emp_id |-> emp_id, employee |-> employee]
        /\ IF hr_resp'.status = 200
           THEN /\ added' = [k \in DOMAIN added \cup {emp_id} |->
                                IF k = emp_id THEN employee ELSE added[k]]
                /\ updated' = [k \in DOMAIN updated \ {emp_id} |-> updated[k]]
           ELSE UNCHANGED <<added, updated>>
        /\ UNCHANGED <<depVars, concVars>>

ViewEmployee ==
    \E emp_id \in EmpIds :
        /\ view_employee(emp_id)
        /\ hr_req' = [op |-> "view_employee", emp_id |-> emp_id]
        /\ UNCHANGED <<added, updated>>
        /\ UNCHANGED <<depVars, concVars>>

UpdatePerformanceReq ==
    \E emp_id \in EmpIds, update \in UpdatePerformance :
        /\ update_performance(emp_id, update)
        /\ hr_req' = [op |-> "update_performance", emp_id |-> emp_id, update |-> update]
        /\ IF hr_resp'.status = 200
           THEN updated' = [k \in DOMAIN updated \cup {emp_id} |->
                               IF k = emp_id THEN update.performance ELSE updated[k]]
           ELSE UNCHANGED updated
        /\ UNCHANGED added
        /\ UNCHANGED <<depVars, concVars>>

CalculatePayroll ==
    /\ calculate_payroll
    /\ hr_req' = [op |-> "calculate_payroll"]
    /\ UNCHANGED <<added, updated>>
    /\ UNCHANGED <<depVars, concVars>>

\* a mutation: the dict survives the restart
StartProcess_persistent == employees' = employees

\* the module body runs again: employees = { "101": ..., "102": ... }
StartProcess == employees' = SampleData

Restart ==
    /\ StartProcess
    /\ hr_req' = [op |-> "restart", modified |-> employees # SampleData]
    /\ hr_resp' = NoResponse
    /\ added' = << >>
    /\ updated' = << >>
    /\ UNCHANGED <<depVars, concVars>>

InitDeployVars ==
    /\ d_req = NoDeployRequest
    /\ d_pc = "idle"
    /\ d_local = NoLocals
    /\ d_trace = << >>
    /\ d_resp = NoResponse
    /\ files = NoFiles

\* the services whose deploy handler is a task of the event loop
DeployServices == {"aws/deploy.py", "gcp/deploy.py"}

\* the requests in flight in the one server process
Tasks == {1, 2}

\* the body of POST /deploy: request.python_script, request.requirements
PostDeploy == [python_script : Scripts, requirements : Scripts]
NoPost == [python_script |-> 0, requirements |-> 0]

\* the files the handler writes before docker build
WorkFiles == {"app.py", "requirements.txt", "Dockerfile"}
NoFile == [content |-> <<>>, writer |-> 0]
NoBuild == [f \in WorkFiles |-> NoFile]

NoTask == [req |-> NoPost, pc |-> "none", suspended |-> FALSE,
           built |-> NoBuild, status |-> 0]

InitConcVars ==
    /\ server = "aws/deploy.py"
    /\ tasks = [t \in Tasks |-> NoTask]
    /\ running = 0
    /\ cwd = NoBuild

InitHRVars ==
    /\ employees = SampleData
    /\ hr_req = NoRequest
    /\ hr_resp = NoResponse
    /\ added = << >>
    /\ updated = << >>

InitHR == InitHRVars /\ InitDeployVars /\ InitConcVars

NextHR ==
    \/ AddEmployee
    \/ ViewEmployee
    \/ UpdatePerformanceReq
    \/ CalculatePayroll
    \/ Restart

SpecHR == InitHR /\ [][NextHR]_vars

(***************************************************************************)
(* Deployment services: the handlers, one action per statement that runs   *)
(* a command, touches a file or calls the provider                         *)
(***************************************************************************)
\* the statements of each handler in program order; the statements that run
\* only in a branch (the CLI installer, create_role, update_function_*)
\* are not listed
Flow(endpoint) ==
    CASE endpoint = "deploy" ->
           <<"docker_info", "aws_version", "venv", "write_app_py",
             "write_requirements_txt", "pip_install", "write_dockerfile",
             "docker_build", "get_caller_identity", "get_login_password",
             "docker_login", "create_repository", "docker_tag", "docker_push",
             "get_role", "create_function", "return">>
      [] endpoint = "advanced_deploy" ->
           <<"docker_info", "aws_version", "save_files", "write_dockerfile",
             "docker_build", "get_caller_identity", "get_login_password",
             "docker_login", "create_repository", "docker_tag", "docker_push",
             "get_role", "create_function", "return">>
      [] endpoint = "deploy_multiple_functions" ->
           <<"get_caller_identity", "get_role", "get_login_password",
             "docker_login", "create_repository", "for_i", "return">>
      [] endpoint = "invoke_multiple_functions" -> <<"for_invoke", "return">>
      [] endpoint = "gcp_deploy_multiple_functions" ->
           <<"gcloud_auth", "for_function", "return">>
      [] endpoint = "delete_lambda_function" -> <<"delete_function", "return">>
      [] endpoint = "list_ecr_repositories" -> <<"describe_repositories", "return">>

\* the statement after step in the handler of the current request
Succ(step) ==
    LET f == Flow(d_req.endpoint)
        i == CHOOSE j \in 1..Len(f) : f[j] = step
    IN  f[i + 1]

\* the classes named by the except clauses around the handler's body
ExceptClauses(endpoint) ==
    CASE endpoint \in {"deploy", "advanced_deploy"} -> {"CalledProcessError", "Exception"}
      [] endpoint = "deploy_multiple_functions" -> {"ClientError"}
      [] endpoint = "invoke_multiple_functions" -> {"Exception"}
      [] endpoint = "gcp_deploy_multiple_functions" -> {"CalledProcessError"}
      [] endpoint = "delete_lambda_function" -> {"ClientError"}
      [] endpoint = "list_ecr_repositories" -> {"Exception"}

\* the image URI the handler computes from account_id and the request
Uri == ImageUri(d_local.account_id, "us-west-2", "repo", "tag")

\* one more entry of the trace
Call(step, out, arg, ret) ==
    Append(d_trace, [step |-> step, out |-> out, arg |-> arg, ret |-> ret])

\* an exception e leaves the try block: a matching except clause answers
\* HTTPException(status_code=500, detail=str(e)); with no matching clause the
\* exception leaves the handler and the server answers its plain
\* 500 "Internal Server Error"
Raise(e) ==
    /\ d_pc' = "done"
    /\ d_local' = [d_local EXCEPT !.exc = e]
    /\ d_resp' = IF \E cls \in ExceptClauses(d_req.endpoint) : IsInstance(e, cls)
                 THEN [status |-> 500, detail |-> Str(e)]
                 ELSE [status |-> 500, body |-> "Internal Server Error"]

\* the statement at step completed
Advance(step, out, arg, ret, next) ==
    /\ d_trace' = Call(step, out, arg, ret)
    /\ d_pc' = next
    /\ d_resp' = d_resp

\* the statement at step raised e
Fail(step, e, arg) ==
    /\ d_trace' = Call(step, e.type, arg, <<>>)
    /\ Raise(e)

\* a request arrives; the server handles one request at a time
StartRequest ==
    \E req \in DeployRequest \cup AdvancedDeployRequest \cup FunctionConfig
                 \cup SimpleRequest \cup InvokeConfig \cup GcpFunctionConfig :
        /\ d_pc \in {"idle", "done"}
        /\ d_req' = req
        /\ d_pc' = Flow(req.endpoint)[1]
        /\ d_local' = NoLocals
        /\ d_trace' = << >>
        /\ d_resp' = NoResponse
        /\ UNCHANGED <<files, hrVars, concVars>>

\* subprocess.run([...], capture_output=True, text=True) followed by a test
\* of returncode that raises HTTPException(500, msg)
RunTested(step, msg) ==
    /\ d_pc = step
    /\ d_req.endpoint \in {"deploy", "advanced_deploy"}
    /\ \/ /\ Advance(step, "ok", <<>>, <<>>, Succ(step))
          /\ UNCHANGED d_local
       \/ Fail(step, HTTPException(msg), <<>>)
       \/ Fail(step, Exc("OSError"), <<>>)
    /\ UNCHANGED <<d_req, files, hrVars, concVars>>

\* a mutation: check=True is missing, a non-zero exit status goes unnoticed
RunChecked_unchecked(step, arg) ==
    /\ d_pc = step
    /\ \/ /\ Advance(step, "ok", arg, <<>>, Succ(step))
          /\ UNCHANGED d_local
       \/ /\ Advance(step, "CalledProcessError", arg, <<>>, Succ(step))
          /\ UNCHANGED d_local
       \/ Fail(step, Exc("OSError"), arg)
    /\ UNCHANGED <<d_req, hrVars, concVars>>

\* subprocess.run([...], check=True)
RunChecked(step, arg) ==
    /\ d_pc = step
    /\ \/ /\ Advance(step, "ok", arg, <<>>, Succ(step))
          /\ UNCHANGED d_local
       \/ Fail(step, Exc("CalledProcessError"), arg)
       \/ Fail(step, Exc("OSError"), arg)
    /\ UNCHANGED <<d_req, hrVars, concVars>>

\* with open(name, "w") as f: f.write(content)
WriteFile(step, name, content) ==
    /\ d_pc = step
    /\ \/ /\ Advance(step, "ok", <<>>, <<>>, Succ(step))
          /\ files' = [files EXCEPT ![name] = content]
          /\ UNCHANGED d_local
       \/ /\ Fail(step, Exc("OSError"), <<>>)
          /\ UNCHANGED files
    /\ UNCHANGED <<d_req, hrVars, concVars>>

\* docker info
DockerInfo ==
    /\ RunTested("docker_info", "Docker daemon is not running. Please start Docker daemon.")

\* aws --version; a non-zero exit status runs install_aws_cli()
AwsVersion ==
    /\ d_pc = "aws_version"
    /\ \/ /\ Advance("aws_version", "ok", <<>>, <<>>, Succ("aws_version"))
          /\ UNCHANGED d_local
       \/ /\ Advance("aws_version", "nonzero", <<>>, <<>>, "curl")
          /\ UNCHANGED d_local
       \/ Fail("aws_version", Exc("OSError"), <<>>)
    /\ UNCHANGED <<d_req, files, hrVars, concVars>>

\* install_aws_cli(): curl, unzip, sudo ./aws/install, rm -rf
InstallAwsCli ==
    \E step \in {"curl", "unzip", "aws_install", "rm"} :
        /\ d_pc = step
        /\ \/ /\ Advance(step, "ok", <<>>, <<>>,
                         CASE step = "curl" -> "unzip"
                           [] step = "unzip" -> "aws_install"
                           [] step = "aws_install" -> "rm"
                           [] step = "rm" -> Succ("aws_version"))
              /\ UNCHANGED d_local
           \/ Fail(step, Exc("CalledProcessError"), <<>>)
           \/ Fail(step, Exc("OSError"), <<>>)
        /\ UNCHANGED <<d_req, files, hrVars, concVars>>

\* python3 -m venv venv
Venv ==
    /\ RunChecked("venv", <<>>)
    /\ files' = IF d_pc' = "done" THEN files ELSE [files EXCEPT !["venv"] = <<"venv", 0>>]

\* open("app.py", "w").write(request.python_script)
WriteAppPy == WriteFile("write_app_py", "app.py", <<"py", d_req.python_script>>)

\* open("requirements.txt", "w").write(request.requirements)
WriteRequirementsTxt == WriteFile("write_requirements_txt", "requirements.txt", <<"req", 0>>)

\* venv/bin/pip install -r requirements.txt
PipInstall ==
    /\ RunChecked("pip_install", <<>>)
    /\ UNCHANGED files

\* for file in files: open(f"./{file.filename}", "wb+").write(file.file.read())
SaveFiles == WriteFile("save_files", "upload", <<"upload", d_req.upload>>)

\* the Dockerfile text: deploy's copies requirements.txt and app.py,
\* advanced_deploy's ends with COPY . .
DockerfileContent(endpoint) ==
    IF endpoint = "deploy" THEN <<"Dockerfile", 0>> ELSE <<"Dockerfile", 1>>

\* open("Dockerfile", "w").write(dockerfile_content)
WriteDockerfile ==
    WriteFile("write_dockerfile", "Dockerfile", DockerfileContent(d_req.endpoint))

\* what docker build -t image_name . puts into the image: the files of the
\* working directory that the Dockerfile on disk copies
BuildContext ==
    [f \in FileNames |->
        IF \/ f = "Dockerfile"
           \/ files["Dockerfile"] = <<"Dockerfile", 1>>
           \/ f \in {"requirements.txt", "app.py"}
        THEN files[f] ELSE <<>>]

\* docker build -t image_name .
DockerBuild ==
    /\ d_pc = "docker_build"
    /\ \/ /\ Advance("docker_build", "ok", <<>>, <<>>, Succ("docker_build"))
          /\ d_local' = [d_local EXCEPT !.image = BuildContext]
       \/ Fail("docker_build", HTTPException("Docker build failed"), <<>>)
       \/ Fail("docker_build", Exc("OSError"), <<>>)
    /\ UNCHANGED <<d_req, files, hrVars, concVars>>

\* a call of the provider SDK that only succeeds or raises
SdkFailure(step, arg) ==
    \/ Fail(step, Exc("ClientError"), arg)
    \/ Fail(step, Exc("BotoCoreError"), arg)

\* boto3.client('sts').get_caller_identity().get('Account')
GetCallerIdentity ==
    /\ d_pc = "get_caller_identity"
    /\ \/ /\ Advance("get_caller_identity", "ok", <<>>, <<"123456789012">>,
                     Succ("get_caller_identity"))
          /\ d_local' = [d_local EXCEPT !.account_id = "123456789012"]
       \/ SdkFailure("get_caller_identity", <<>>)
    /\ UNCHANGED <<d_req, files, hrVars, concVars>>

\* aws ecr get-login-password --region region
GetLoginPassword ==
    /\ RunChecked("get_login_password", <<>>)
    /\ UNCHANGED files

\* docker login --username AWS --password-stdin ecr_uri; deploy and
\* advanced_deploy test the exit status, deploy_multiple_functions does not
DockerLogin ==
    \/ RunTested("docker_login", "Docker login failed")
    \/ /\ d_pc = "docker_login"
       /\ d_req.endpoint = "deploy_multiple_functions"
       /\ \/ \E out \in {"ok", "nonzero"} :
                /\ Advance("docker_login", out, <<>>, <<>>, Succ("docker_login"))
                /\ UNCHANGED d_local
          \/ Fail("docker_login", Exc("OSError"), <<>>)
       /\ UNCHANGED <<d_req, files, hrVars, concVars>>

\* a mutation: every ClientError of create_repository is swallowed
CreateRepository_swallow_all ==
    /\ d_pc = "create_repository"
    /\ \/ \E out \in {"ok", "RepositoryAlreadyExistsException", "ClientError"} :
             /\ Advance("create_repository", out, <<"repo">>, <<>>,
                        Succ("create_repository"))
             /\ UNCHANGED d_local
       \/ Fail("create_repository", Exc("BotoCoreError"), <<"repo">>)
    /\ UNCHANGED <<d_req, files, hrVars, concVars>>

\* ecr_client.create_repository(...) in try / except
\* RepositoryAlreadyExistsException: pass
CreateRepository ==
    /\ d_pc = "create_repository"
    /\ \/ \E out \in {"ok", "RepositoryAlreadyExistsException"} :
             /\ Advance("create_repository", out, <<"repo">>, <<>>,
                        Succ("create_repository"))
             /\ UNCHANGED d_local
       \/ SdkFailure("create_repository", <<"repo">>)
    /\ UNCHANGED <<d_req, files, hrVars, concVars>>

\* docker tag image_name ecr_uri/image_name
DockerTag ==
    /\ RunChecked("docker_tag", Uri)
    /\ UNCHANGED files

\* docker push ecr_uri/image_name
DockerPush ==
    /\ RunChecked("docker_push", Uri)
    /\ UNCHANGED files

\* ensure_iam_role: iam_client.get_role(RoleName=role_name)
GetRole ==
    /\ d_pc = "get_role"
    /\ \/ /\ Advance("get_role", "ok", <<>>, <<>>, Succ("get_role"))
          /\ UNCHANGED d_local
       \/ /\ Advance("get_role", "NoSuchEntityException", <<>>, <<>>, "create_role")
          /\ UNCHANGED d_local
       \/ SdkFailure("get_role", <<>>)
    /\ UNCHANGED <<d_req, files, hrVars, concVars>>

\* ensure_iam_role: iam_client.create_role(...) after NoSuchEntityException
CreateRole ==
    /\ d_pc = "create_role"
    /\ \/ /\ Advance("create_role", "ok", <<>>, <<>>, Succ("get_role"))
          /\ UNCHANGED d_local
       \/ SdkFailure("create_role", <<>>)
    /\ UNCHANGED <<d_req, files, hrVars, concVars>>

\* AdvancedDeployRequest of aws/deploy.py has no memory_size field: building
\* the arguments of create_function raises AttributeError
HasMemorySize(req) ==
    ~(req.endpoint = "advanced_deploy" /\ req.service = "aws/deploy.py")

\* a mutation: update_function_code is called after any ClientError
CreateFunction_update_always ==
    /\ d_pc = "create_function"
    /\ \/ \E arn \in Arns :
             /\ Advance("create_function", "ok", Uri, <<arn>>, "return")
             /\ d_local' = [d_local EXCEPT !.response = <<arn>>]
       \/ \E out \in {"ResourceConflictException", "ClientError"} :
             /\ Advance("create_function", out, Uri, <<>>, "update_function_code")
             /\ UNCHANGED d_local
       \/ Fail("create_function", Exc("BotoCoreError"), Uri)
    /\ UNCHANGED <<d_req, files, hrVars, concVars>>

\* response = lambda_client.create_function(..., Code={'ImageUri': ...}) in
\* try / except ResourceConflictException
CreateFunction ==
    /\ d_pc = "create_function"
    /\ IF HasMemorySize(d_req)
       THEN \/ \E arn \in Arns :
                  /\ Advance("create_function", "ok", Uri, <<arn>>, "return")
                  /\ d_local' = [d_local EXCEPT !.response = <<arn>>]
            \/ /\ Advance("create_function", "ResourceConflictException", Uri, <<>>,
                          "update_function_code")
               /\ UNCHANGED d_local
            \/ SdkFailure("create_function", Uri)
       ELSE /\ d_trace' = d_trace
            /\ Raise(Exc("AttributeError"))
    /\ UNCHANGED <<d_req, files, hrVars, concVars>>

\* response = lambda_client.update_function_code(..., ImageUri=...)
UpdateFunctionCode ==
    /\ d_pc = "update_function_code"
    /\ \/ \E arn \in Arns :
             /\ Advance("update_function_code", "ok", Uri, <<arn>>,
                        IF d_req.vpc_id # "None"
                        THEN "update_function_configuration" ELSE "return")
             /\ d_local' = [d_local EXCEPT !.response = <<arn>>]
       \/ SdkFailure("update_function_code", Uri)
    /\ UNCHANGED <<d_req, files, hrVars, concVars>>

\* if request.vpc_id: lambda_client.update_function_configuration(...); the
\* value it returns is not kept
UpdateFunctionConfiguration ==
    /\ d_pc = "update_function_configuration"
    /\ \/ \E arn \in Arns :
             /\ Advance("update_function_configuration", "ok", <<>>, <<arn>>, "return")
             /\ UNCHANGED d_local
       \/ SdkFailure("update_function_configuration", <<>>)
    /\ UNCHANGED <<d_req, files, hrVars, concVars>>

\* deploy_multiple_functions: for i in range(config.number_of_functions);
\* FunctionConfig has no memory_size field, so building the arguments of the
\* first create_function raises AttributeError inside the loop body
ForEachFunction ==
    /\ d_pc = "for_i"
    /\ IF d_local.i < d_req.number_of_functions
       THEN /\ d_trace' = d_trace
            /\ Raise(Exc("AttributeError"))
       ELSE /\ d_pc' = "return"
            /\ UNCHANGED <<d_local, d_trace, d_resp>>
    /\ UNCHANGED <<d_req, files, hrVars, concVars>>

\* the single provider call of delete_lambda_function / list_ecr_repositories
SimpleCall ==
    \E step \in {"delete_function", "describe_repositories"} :
        /\ d_pc = step
        /\ \/ /\ Advance(step, "ok", <<>>, <<>>, Succ(step))
              /\ UNCHANGED d_local
           \/ SdkFailure(step, <<>>)
        /\ UNCHANGED <<d_req, files, hrVars, concVars>>

\* the return statement of the handler
Return ==
    /\ d_pc = "return"
    /\ d_pc' = "done"
    /\ d_resp' =
         CASE d_req.endpoint = "deploy" ->
                [status |-> 200, message |-> "Deployment successful",
                 image_uri |-> Uri, lambda_arn |-> d_local.response[1]]
           [] d_req.endpoint = "advanced_deploy" ->
                [status |-> 200, message |-> "Advanced deployment successful",
                 image_uri |-> Uri, lambda_arn |-> d_local.response[1]]
           [] d_req.endpoint \in {"deploy_multiple_functions",
                                  "gcp_deploy_multiple_functions"} ->
                [status |-> 200,
                 message |-> <<"Deployed ", d_req.number_of_functions,
                               " functions successfully">>]
           [] d_req.endpoint = "invoke_multiple_functions" ->
                [status |-> 200,
                 message |-> <<"Invoked ", d_req.number_of_functions,
                               " functions successfully">>,
                 responses |-> d_local.responses]
           [] d_req.endpoint = "delete_lambda_function" ->
                [status |-> 200, message |-> "Lambda function deleted successfully."]
           [] d_req.endpoint = "list_ecr_repositories" ->
                [status |-> 200, message |-> "repositories"]
    /\ UNCHANGED <<d_req, d_local, d_trace, files, hrVars, concVars>>

(***************************************************************************)
(* Deployment services: the VPC configuration endpoints                    *)
(***************************************************************************)
\* class VpcConfig(BaseModel): the bodies that pass validation
VpcConfig ==
    [vpc_id : {"vpc-12345678", "vpc-2"},
     subnet_ids : {<<"subnet-12345678", "subnet-87654321">>, <<"subnet-9">>},
     security_group_ids : {<<"sg-12345678", "sg-87654321">>, <<"sg-9">>}]

VpcEndpoints == {"set_vpc_config", "edit_vpc_config", "get_vpc_config"}

\* the dict literal of get_vpc_config
mock_vpc_config ==
    [vpc_id |-> "vpc-12345678",
     subnet_ids |-> <<"subnet-12345678", "subnet-87654321">>,
     security_group_ids |-> <<"sg-12345678", "sg-87654321">>]

\* @app.post("/set-vpc-config")
set_vpc_config(vpc_config) ==
    /\ d_resp' = [status |-> 200, message |-> "VPC configuration set successfully",
                  vpc_config |-> vpc_config]
    /\ files' = files

\* @app.put("/edit-vpc-config")
edit_vpc_config(vpc_config) ==
    /\ d_resp' = [status |-> 200, message |-> "VPC configuration updated successfully",
                  vpc_config |-> vpc_config]
    /\ files' = files

\* a mutation: the configuration submitted by the request before is returned
get_vpc_config_stored ==
    /\ d_resp' = [status |-> 200,
                  vpc_config |-> IF d_req.endpoint \in {"set_vpc_config", "edit_vpc_config"}
                                 THEN d_req.vpc_config ELSE mock_vpc_config]
    /\ files' = files

\* @app.get("/get-vpc-config")
get_vpc_config ==
    /\ d_resp' = [status |-> 200, vpc_config |-> mock_vpc_config]
    /\ files' = files

\* a VPC request is served; the handlers are a single return statement
VpcRequest ==
    /\ d_pc \in {"idle", "done"}
    /\ \E service \in Services :
          \/ \E vpc_config \in VpcConfig :
                \/ /\ set_vpc_config(vpc_config)
                   /\ d_req' = [endpoint |-> "set_vpc_config", service |-> service,
                                vpc_config |-> vpc_config]
                \/ /\ edit_vpc_config(vpc_config)
                   /\ d_req' = [endpoint |-> "edit_vpc_config", service |-> service,
                                vpc_config |-> vpc_config]
          \/ /\ get_vpc_config
             /\ d_req' = [endpoint |-> "get_vpc_config", service |-> service,
                          after |-> d_req.endpoint]
    /\ d_pc' = "done"
    /\ d_local' = NoLocals
    /\ d_trace' = << >>
    /\ UNCHANGED <<hrVars, concVars>>


(***************************************************************************)
(* Deployment services: invoke_multiple_functions of aws/deploy.py         *)
(***************************************************************************)
\* an exception e raised in the loop body reaches the inner except clauses
\* (ResourceNotFoundException, Exception), which publish to SNS first
InnerExcept(e) ==
    /\ d_pc' = "publish"
    /\ d_local' = [d_local EXCEPT !.exc = e]
    /\ d_resp' = d_resp

\* for i in range(config.number_of_functions)
InvokeLoop ==
    /\ d_pc = "for_invoke"
    /\ d_pc' = IF d_local.i < d_req.number_of_functions THEN "invoke" ELSE "return"
    /\ UNCHANGED <<d_req, d_local, d_trace, d_resp, files, hrVars, concVars>>

\* response = lambda_client.invoke(FunctionName=f"{prefix}-{i}", ...)
Invoke ==
    /\ d_pc = "invoke"
    /\ \/ \E payload \in Payloads :
             /\ Advance("invoke", "ok", <<d_local.i>>, <<payload>>, "json_loads")
             /\ d_local' = [d_local EXCEPT !.response = <<payload>>]
       \/ \E type \in {"ResourceNotFoundException", "ClientError", "BotoCoreError"} :
             /\ d_trace' = Call("invoke", type, <<d_local.i>>, <<>>)
             /\ InnerExcept(Exc(type))
    /\ UNCHANGED <<d_req, files, hrVars, concVars>>

\* response_data = json.loads(response_payload); responses.append(response_data)
JsonLoads ==
    /\ d_pc = "json_loads"
    /\ \/ /\ d_pc' = "create_log_stream"
          /\ d_local' = [d_local EXCEPT
                            !.responses = Append(@, Decoded(d_local.response[1]))]
          /\ d_resp' = d_resp
       \/ InnerExcept(Exc("ValueError"))
    /\ UNCHANGED <<d_req, d_trace, files, hrVars, concVars>>

\* logs_client.create_log_stream(...)
CreateLogStream ==
    /\ d_pc = "create_log_stream"
    /\ \/ /\ Advance("create_log_stream", "ok", <<d_local.i>>, <<>>, "put_log_events")
          /\ UNCHANGED d_local
       \/ \E type \in {"ClientError", "BotoCoreError"} :
             /\ d_trace' = Call("create_log_stream", type, <<d_local.i>>, <<>>)
             /\ InnerExcept(Exc(type))
    /\ UNCHANGED <<d_req, files, hrVars, concVars>>

\* logs_client.put_log_events(..., 'timestamp': int(time.time() * 1000), ...):
\* the module does not import time, building the arguments raises NameError
PutLogEvents ==
    /\ d_pc = "put_log_events"
    /\ InnerExcept(Exc("NameError"))
    /\ UNCHANGED <<d_req, d_trace, files, hrVars, concVars>>

\* the HTTPException raised by the inner except clause after the publish
InvokeError(e) ==
    IF e.type = "ResourceNotFoundException"
    THEN HTTPException("Function not found.")
    ELSE [type |-> "HTTPException", detail |-> Str(e)]

\* a mutation: the except clause publishes and goes on with the next function
Publish_continue ==
    /\ d_pc = "publish"
    /\ \/ /\ d_trace' = Call("publish", "ok", <<d_local.i>>, <<>>)
          /\ d_pc' = "for_invoke"
          /\ d_local' = [d_local EXCEPT !.i = @ + 1]
          /\ d_resp' = d_resp
       \/ SdkFailure("publish", <<d_local.i>>)
    /\ UNCHANGED <<d_req, files, hrVars, concVars>>

\* sns_client.publish(TopicArn=sns_topic_arn, ...) in the inner except
\* clause, then raise HTTPException(status_code=500, ...)
Publish ==
    /\ d_pc = "publish"
    /\ \/ /\ d_trace' = Call("publish", "ok", <<d_local.i>>, <<>>)
          /\ Raise(InvokeError(d_local.exc))
       \/ SdkFailure("publish", <<d_local.i>>)
    /\ UNCHANGED <<d_req, files, hrVars, concVars>>


(***************************************************************************)
(* Deployment services: deploy_multiple_functions of gcp/deploy.py         *)
(***************************************************************************)
\* a mutation: a failed command of the loop body deletes the functions
\* deployed so far before the exception is raised
GcpRun_rollback(step, next) ==
    /\ d_pc = step
    /\ \/ /\ Advance(step, "ok", <<d_local.i>>, <<>>, next)
          /\ d_local' = IF step = "gcloud_functions_deploy"
                        THEN [d_local EXCEPT !.i = @ + 1] ELSE d_local
       \/ /\ d_trace' = Call(step, "CalledProcessError", <<d_local.i>>, <<>>)
                          \o [j \in 1..d_local.i |->
                                 [step |-> "gcloud_functions_delete", out |-> "ok",
                                  arg |-> <<j - 1>>, ret |-> <<>>]]
          /\ Raise(Exc("CalledProcessError"))
       \/ Fail(step, Exc("OSError"), <<d_local.i>>)
    /\ UNCHANGED <<d_req, hrVars, concVars>>

\* subprocess.run([...], check=True) for function d_local.i; the last
\* command of the loop body is followed by the loop's next iteration
GcpRun(step, next) ==
    /\ d_pc = step
    /\ \/ /\ Advance(step, "ok", <<d_local.i>>, <<>>, next)
          /\ d_local' = IF step = "gcloud_functions_deploy"
                        THEN [d_local EXCEPT !.i = @ + 1] ELSE d_local
       \/ Fail(step, Exc("CalledProcessError"), <<d_local.i>>)
       \/ Fail(step, Exc("OSError"), <<d_local.i>>)
    /\ UNCHANGED <<d_req, hrVars, concVars>>

\* gcloud auth configure-docker
GcloudAuth ==
    /\ GcpRun("gcloud_auth", "for_function")
    /\ UNCHANGED files

\* for i in range(config.number_of_functions)
GcpForEachFunction ==
    /\ d_pc = "for_function"
    /\ d_pc' = IF d_local.i < d_req.number_of_functions THEN "gcr_tag" ELSE "return"
    /\ UNCHANGED <<d_req, d_local, d_trace, d_resp, files, hrVars, concVars>>

\* docker tag image_name gcr_uri/image_name
GcrTag ==
    /\ GcpRun("gcr_tag", "gcr_push")
    /\ UNCHANGED files

\* docker push gcr_uri/image_name
GcrPush ==
    /\ GcpRun("gcr_push", "gcloud_functions_deploy")
    /\ UNCHANGED files

\* gcloud functions deploy function_name ...
GcloudFunctionsDeploy ==
    /\ GcpRun("gcloud_functions_deploy", "for_function")
    /\ UNCHANGED files


InitDeploy == InitHRVars /\ InitDeployVars /\ InitConcVars

NextDeploy ==
    \/ StartRequest
    \/ DockerInfo
    \/ AwsVersion
    \/ InstallAwsCli
    \/ Venv
    \/ WriteAppPy
    \/ WriteRequirementsTxt
    \/ PipInstall
    \/ SaveFiles
    \/ WriteDockerfile
    \/ DockerBuild
    \/ GetCallerIdentity
    \/ GetLoginPassword
    \/ DockerLogin
    \/ CreateRepository
    \/ DockerTag
    \/ DockerPush
    \/ GetRole
    \/ CreateRole
    \/ CreateFunction
    \/ UpdateFunctionCode
    \/ UpdateFunctionConfiguration
    \/ ForEachFunction
    \/ SimpleCall
    \/ Return
    \/ VpcRequest
    \/ InvokeLoop
    \/ Invoke
    \/ JsonLoads
    \/ CreateLogStream
    \/ PutLogEvents
    \/ Publish
    \/ GcloudAuth
    \/ GcpForEachFunction
    \/ GcrTag
    \/ GcrPush
    \/ GcloudFunctionsDeploy

SpecDeploy == InitDeploy /\ [][NextDeploy]_vars

(***************************************************************************)
(* Two deploy requests in one server process: uvicorn.run(app) runs every  *)
(* async def handler as a task of one event loop                           *)
(***************************************************************************)
\* the statements of deploy up to docker build, then the rest of the handler
HandlerSteps(service) ==
    IF service = "aws/deploy.py"
    THEN <<"docker_info", "aws_version", "venv", "write_app_py",
           "write_requirements_txt", "pip_install", "write_dockerfile",
           "docker_build", "rest">>
    ELSE <<"docker_info", "venv", "write_app_py", "write_requirements_txt",
           "pip_install", "write_dockerfile", "docker_build", "rest">>

NextStep(step) ==
    LET f == HandlerSteps(server)
        i == CHOOSE j \in 1..Len(f) : f[j] = step
    IN  f[i + 1]

\* a mutation: awaiting the coroutine hands control back to the event loop
AwaitSuspends_yielding(callee) == TRUE

\* await callee(): install_aws_cli is a coroutine function whose body is four
\* blocking subprocess.run calls and no await, so awaiting it never
\* suspends the task
AwaitSuspends(callee) == FALSE

\* the handler of task t returns or raises: the response is sent and the
\* event loop is free again
Finish(t, status) ==
    /\ tasks' = [tasks EXCEPT ![t].pc = "done", ![t].status = status]
    /\ running' = 0

\* a POST /deploy arrives and the server creates the task of its handler
Arrive ==
    \E t \in Tasks, req \in PostDeploy :
        /\ tasks[t].pc \in {"none", "done"}
        /\ tasks' = [tasks EXCEPT ![t] = [NoTask EXCEPT !.req = req, !.pc = "pending"]]
        /\ UNCHANGED <<server, running, cwd, hrVars, depVars>>

\* the event loop is free: it starts a pending task, or resumes a task
\* that an await suspended
RunTask ==
    \E t \in Tasks :
        /\ running = 0
        /\ tasks[t].pc = "pending" \/ tasks[t].suspended
        /\ running' = t
        /\ tasks' = [tasks EXCEPT
                        ![t].pc = IF @ = "pending" THEN HandlerSteps(server)[1] ELSE @,
                        ![t].suspended = FALSE]
        /\ UNCHANGED <<server, cwd, hrVars, depVars>>

\* subprocess.run of docker info, python3 -m venv, pip install, docker build:
\* a blocking call made by the running task
RunCommand ==
    \E t \in Tasks :
        /\ running = t
        /\ tasks[t].pc \in {"docker_info", "venv", "pip_install", "docker_build"}
        /\ \/ /\ tasks' = [tasks EXCEPT
                              ![t].pc = NextStep(@),
                              ![t].built = IF tasks[t].pc = "docker_build" THEN cwd ELSE @]
              /\ running' = running
           \/ Finish(t, 500)
        /\ UNCHANGED <<server, cwd, hrVars, depVars>>

\* with open(name, "w") as f: f.write(...) for app.py, requirements.txt
\* and Dockerfile
WriteStep ==
    \E t \in Tasks :
        /\ running = t
        /\ tasks[t].pc \in {"write_app_py", "write_requirements_txt", "write_dockerfile"}
        /\ \/ /\ cwd' = CASE tasks[t].pc = "write_app_py" ->
                             [cwd EXCEPT !["app.py"] =
                                 [content |-> <<"py", tasks[t].req.python_script>>,
                                  writer |-> t]]
                          [] tasks[t].pc = "write_requirements_txt" ->
                             [cwd EXCEPT !["requirements.txt"] =
                                 [content |-> <<"req", tasks[t].req.requirements>>,
                                  writer |-> t]]
                          [] tasks[t].pc = "write_dockerfile" ->
                             [cwd EXCEPT !["Dockerfile"] =
                                 [content |-> DockerfileContent("deploy"), writer |-> t]]
              /\ tasks' = [tasks EXCEPT ![t].pc = NextStep(@)]
              /\ running' = running
           \/ /\ Finish(t, 500)
              /\ cwd' = cwd
        /\ UNCHANGED <<server, hrVars, depVars>>

\* aws --version (aws/deploy.py only); a non-zero exit status leads to
\* await install_aws_cli()
CheckAwsCli ==
    \E t \in Tasks :
        /\ running = t
        /\ tasks[t].pc = "aws_version"
        /\ \/ /\ tasks' = [tasks EXCEPT ![t].pc = NextStep(@)]
              /\ running' = running
           \/ /\ tasks' = [tasks EXCEPT ![t].pc = "curl"]
              /\ running' = running
           \/ Finish(t, 500)
        /\ UNCHANGED <<server, cwd, hrVars, depVars>>

\* await install_aws_cli(): the four commands of the coroutine (curl, unzip,
\* sudo ./aws/install, rm -rf) run in the task; when the coroutine is over
\* the task gives up the event loop only if the await suspends
AwaitInstallAwsCli ==
    \E t \in Tasks :
        /\ running = t
        /\ tasks[t].pc \in {"curl", "unzip", "aws_install", "rm"}
        /\ \/ /\ tasks[t].pc # "rm"
              /\ tasks' = [tasks EXCEPT
                              ![t].pc = CASE @ = "curl" -> "unzip"
                                          [] @ = "unzip" -> "aws_install"
                                          [] @ = "aws_install" -> "rm"]
              /\ running' = running
           \/ /\ tasks[t].pc = "rm"
              /\ tasks' = [tasks EXCEPT
                              ![t].pc = NextStep("aws_version"),
                              ![t].suspended = AwaitSuspends("install_aws_cli")]
              /\ running' = IF AwaitSuspends("install_aws_cli") THEN 0 ELSE t
           \/ Finish(t, 500)
        /\ UNCHANGED <<server, cwd, hrVars, depVars>>

\* the statements after docker build, up to the handler's return or raise
RestOfHandler ==
    \E t \in Tasks :
        /\ running = t
        /\ tasks[t].pc = "rest"
        /\ \E status \in {200, 500} : Finish(t, status)
        /\ UNCHANGED <<server, cwd, hrVars, depVars>>

InitConcurrent ==
    /\ InitHRVars
    /\ InitDeployVars
    /\ server \in DeployServices
    /\ tasks = [t \in Tasks |-> NoTask]
    /\ running = 0
    /\ cwd = NoBuild

NextConcurrent ==
    \/ Arrive
    \/ RunTask
    \/ RunCommand
    \/ WriteStep
    \/ CheckAwsCli
    \/ AwaitInstallAwsCli
    \/ RestOfHandler

SpecConcurrent == InitConcurrent /\ [][NextConcurrent]_vars

(***************************************************************************)
(* HR demo: properties                                                     *)
(***************************************************************************)
\* the entries of d other than key k are the entries of e other than key k
SameExcept(d, e, k) ==
    \A j \in (DictKeys(d) \cup DictKeys(e)) \ {k} :
        /\ DictHas(d, j)
        /\ DictHas(e, j)
        /\ DictGet(d, j) = DictGet(e, j)

\* the sum of the salary fields of the entries of d with a key in S
RECURSIVE SalarySum(_, _)
SalarySum(d, S) ==
    IF S = {}
    THEN 0
    ELSE LET k == CHOOSE x \in S : TRUE
         IN  DictGet(d, k).salary + SalarySum(d, S \ {k})

\* C1: add_employee on an id that is already a key answers 400 'Employee ID
\* already exists' and leaves the mapping as it was; on a new id the mapping
\* gains exactly that key, holding the submitted record, and every other
\* record is unchanged.
C1_AddEmployee ==
    [][hr_req'.op = "add_employee" =>
        LET id == hr_req'.emp_id
            e  == hr_req'.employee
        IN  IF DictHas(employees, id)
            THEN /\ hr_resp' = [status |-> 400, detail |-> "Employee ID already exists"]
                 /\ employees' = employees
            ELSE /\ hr_resp'.status = 200
                 /\ DictKeys(employees') = DictKeys(employees) \cup {id}
                 /\ Len(employees') = Len(employees) + 1
                 /\ DictGet(employees', id) = e
                 /\ SameExcept(employees, employees', id)]_vars

\* a duplicate add_employee was refused for an id added earlier by a request
C1_Witness ==
    /\ hr_req.op = "add_employee"
    /\ hr_resp.status = 400
    /\ hr_req.emp_id \in DOMAIN added
    /\ DictGet(employees, hr_req.emp_id) = added[hr_req.emp_id]

\* what view_employee(id) has to return for an id added by a request
Expected(id) ==
    [added[id] EXCEPT !.performance =
        IF id \in DOMAIN updated THEN updated[id] ELSE added[id].performance]

\* C2: after a successful add_employee(id, e) and any further requests,
\* view_employee(id) returns e's name, position and salary and the
\* performance of the latest successful update_performance(id, p), or e's
\* performance when there was none.
C2_RoundTrip ==
    /\ \A id \in DOMAIN added :
          /\ DictHas(employees, id)
          /\ DictGet(employees, id) = Expected(id)
    /\ (hr_req.op = "view_employee" /\ hr_req.emp_id \in DOMAIN added)
          => hr_resp = [status |-> 200, body |-> Expected(hr_req.emp_id)]

\* an added employee whose performance was updated afterwards is viewed
C2_Witness ==
    /\ hr_req.op = "view_employee"
    /\ hr_req.emp_id \in DOMAIN added
    /\ hr_req.emp_id \in DOMAIN updated
    /\ hr_resp.status = 200
    /\ hr_resp.body.performance # added[hr_req.emp_id].performance

\* C3: view_employee and update_performance on an id that is not a key answer
\* 404 'Employee not found' and neither create nor change a record.
C3_NotFound ==
    [][(/\ hr_req'.op \in {"view_employee", "update_performance"}
        /\ ~DictHas(employees, hr_req'.emp_id))
        => /\ hr_resp' = [status |-> 404, detail |-> "Employee not found"]
           /\ employees' = employees]_vars

\* an update_performance for an unknown id was answered 404
C3_Witness ==
    /\ hr_req.op = "update_performance"
    /\ hr_resp.status = 404
    /\ ~DictHas(employees, hr_req.emp_id)

\* C4: update_performance on an existing id sets that employee's performance
\* to p and changes nothing else: not the employee's name, position or
\* salary, not another record, not the set (or order) of the ids.
C4_UpdateFrame ==
    [][(/\ hr_req'.op = "update_performance"
        /\ DictHas(employees, hr_req'.emp_id))
        => LET id  == hr_req'.emp_id
               old == DictGet(employees, id)
               new == DictGet(employees', id)
           IN  /\ hr_resp'.status = 200
               /\ [i \in 1..Len(employees') |-> employees'[i].key]
                     = [i \in 1..Len(employees) |-> employees[i].key]
               /\ new.performance = hr_req'.update.performance
               /\ new.name = old.name
               /\ new.position = old.position
               /\ new.salary = old.salary
               /\ DOMAIN new = DOMAIN old
               /\ SameExcept(employees, employees', id)]_vars

\* the performance of an employee was changed while other employees exist
C4_Witness ==
    /\ hr_req.op = "update_performance"
    /\ hr_resp.status = 200
    /\ Len(employees) > 2
    /\ hr_req.emp_id \in DOMAIN added
    /\ DictGet(employees, hr_req.emp_id).performance # added[hr_req.emp_id].performance

\* C5: calculate_payroll reports the sum of the salaries of the employees in
\* the mapping, lists each of them exactly once and leaves the mapping
\* unchanged; the total a request would report changes only by a successful
\* add_employee, never by update_performance, view_employee or a refused add.
C5_Payroll ==
    [][/\ hr_req'.op = "calculate_payroll" =>
            LET info == hr_resp'.payroll
            IN  /\ hr_resp'.status = 200
                /\ info.total = SalarySum(employees, DictKeys(employees))
                /\ Len(info.lines) = Cardinality(DictKeys(employees))
                /\ {info.lines[i].id : i \in 1..Len(info.lines)} = DictKeys(employees)
                /\ \A i \in 1..Len(info.lines) :
                      /\ info.lines[i].name = DictGet(employees, info.lines[i].id).name
                      /\ info.lines[i].salary = DictGet(employees, info.lines[i].id).salary
                /\ employees' = employees
       /\ (/\ hr_req'.op # "restart"
           /\ PayrollInfo(employees').total # PayrollInfo(employees).total)
            => (hr_req'.op = "add_employee" /\ hr_resp'.status = 200)]_vars

\* the payroll of the two sample employees and two added ones was reported
C5_Witness ==
    /\ hr_req.op = "calculate_payroll"
    /\ Len(employees) = 4
    /\ hr_resp.payroll.total > 110000
    /\ Len(hr_resp.payroll.lines) = 4

\* C6: whatever requests were served before, after a restart the mapping is
\* exactly the two sample records 101 and 102 with their original values.
C6_Restart ==
    [][hr_req'.op = "restart" =>
        /\ employees' = SampleData
        /\ DictKeys(employees') = SampleIds]_vars

\* a restart happened after requests had changed the mapping
C6_Witness ==
    /\ hr_req.op = "restart"
    /\ hr_req.modified
    /\ employees = SampleData

(***************************************************************************)
(* Deployment services: properties                                         *)
(***************************************************************************)
\* the positions of the trace at which step was executed
At(step) == {i \in 1..Len(d_trace) : d_trace[i].step = step}

\* C7: every exception raised by a step of a deployment handler is caught by
\* the handler and answered with HTTP 500 whose detail is the exception's
\* text; no exception leaves a handler unmapped.
C7_AllMapped ==
    (d_pc = "done" /\ d_local.exc # NoExc)
        => d_resp = [status |-> 500, detail |-> Str(d_local.exc)]

\* the step of the claimed list that a statement of deploy belongs to:
\* 1 docker-daemon check, 2 AWS CLI check, 3 venv creation, 4 write app.py,
\* 5 write requirements.txt, 6 pip install, 7 write Dockerfile,
\* 8 docker build, 9 ECR login, 10 create ECR repository, 11 docker tag,
\* 12 docker push, 13 ensure IAM role, 14 create-or-update Lambda function
Stage(step) ==
    CASE step = "docker_info" -> 1
      [] step \in {"aws_version", "curl", "unzip", "aws_install", "rm"} -> 2
      [] step = "venv" -> 3
      [] step = "write_app_py" -> 4
      [] step = "write_requirements_txt" -> 5
      [] step = "pip_install" -> 6
      [] step = "write_dockerfile" -> 7
      [] step = "docker_build" -> 8
      [] step \in {"get_caller_identity", "get_login_password", "docker_login"} -> 9
      [] step = "create_repository" -> 10
      [] step = "docker_tag" -> 11
      [] step = "docker_push" -> 12
      [] step \in {"get_role", "create_role"} -> 13
      [] step \in {"create_function", "update_function_code",
                   "update_function_configuration"} -> 14

\* the provider answers that the handler turns into the other branch of the
\* same step: the repository exists, the role is missing, the function exists
OtherBranch ==
    {<<"create_repository", "RepositoryAlreadyExistsException">>,
     <<"get_role", "NoSuchEntityException">>,
     <<"create_function", "ResourceConflictException">>}

\* the steps are executed in the claimed order, none skipped, none twice
InClaimedOrder ==
    /\ d_trace # << >> => Stage(d_trace[1].step) = 1
    /\ \A i \in 1..(Len(d_trace) - 1) :
          Stage(d_trace[i + 1].step) \in
              {Stage(d_trace[i].step), Stage(d_trace[i].step) + 1}
    /\ \A i, j \in 1..Len(d_trace) : i < j => d_trace[i].step # d_trace[j].step
    /\ (d_pc = "done" /\ d_resp.status = 200)
          => {Stage(d_trace[i].step) : i \in 1..Len(d_trace)} = 1..14

\* the entry ended the request: HTTP 500, and it is the last of the trace
EndsRequest(i) ==
    /\ i = Len(d_trace)
    /\ d_pc = "done"
    /\ d_resp.status = 500

\* C8 as stated: deploy runs its steps in the fixed order; a step runs only
\* if every earlier step succeeded, the first failing step (a failing AWS
\* CLI check included) ends the request with HTTP 500, no later step is
\* executed and no step is retried.
C8_Original ==
    d_req.endpoint = "deploy" =>
        /\ InClaimedOrder
        /\ \A i \in 1..Len(d_trace) :
              (/\ d_trace[i].out # "ok"
               /\ <<d_trace[i].step, d_trace[i].out>> \notin OtherBranch)
                 => EndsRequest(i)

\* C8: deploy runs its steps in the fixed order, none twice; a non-zero exit
\* of the AWS CLI check does not end the request but runs the installer
\* (curl, unzip, install, rm) as part of that step; apart from that a step
\* runs only if every earlier step succeeded, and the first step that
\* raises ends the request with HTTP 500 with no later step executed.
C8_Linear ==
    d_req.endpoint = "deploy" =>
        /\ InClaimedOrder
        /\ \A i \in 1..Len(d_trace) :
              (/\ d_trace[i].out # "ok"
               /\ <<d_trace[i].step, d_trace[i].out>> \notin OtherBranch)
                 => \/ EndsRequest(i)
                    \/ /\ d_trace[i].step = "aws_version"
                       /\ d_trace[i].out = "nonzero"
                       /\ \/ d_pc = "curl"
                          \/ i < Len(d_trace) /\ d_trace[i + 1].step = "curl"
        /\ At("curl") # {} =>
              \E i \in At("aws_version") : d_trace[i].out = "nonzero"
        /\ At("venv") # {} =>
              \/ \E i \in At("aws_version") : d_trace[i].out = "ok"
              \/ \E i \in At("rm") : d_trace[i].out = "ok"

\* a deploy request failed at docker push, after the CLI had been installed
\* and every earlier step had run, and nothing ran after the push
C8_Witness ==
    /\ d_req.endpoint = "deploy"
    /\ d_pc = "done"
    /\ d_resp.status = 500
    /\ At("rm") # {}
    /\ Len(d_trace) > 12
    /\ d_trace[Len(d_trace)].step = "docker_push"
    /\ d_trace[Len(d_trace)].out = "CalledProcessError"

\* C9: in deploy and advanced_deploy an 'already exists' answer of
\* create_repository is swallowed and the request goes on to docker tag and
\* docker push as after a creation; any other error of create_repository
\* ends the request with HTTP 500 before anything is pushed.
C9_RepositoryExists ==
    /\ [][(/\ d_pc = "create_repository"
           /\ d_req.endpoint \in {"deploy", "advanced_deploy"})
          => LET last == d_trace'[Len(d_trace')]
             IN  /\ Len(d_trace') = Len(d_trace) + 1
                 /\ last.step = "create_repository"
                 /\ IF last.out \in {"ok", "RepositoryAlreadyExistsException"}
                    THEN /\ d_pc' = "docker_tag"
                         /\ UNCHANGED <<d_req, d_local, d_resp, files>>
                    ELSE /\ d_pc' = "done"
                         /\ d_resp'.status = 500
                         /\ \A i \in 1..Len(d_trace') :
                               d_trace'[i].step # "docker_push"]_vars
    /\ [](d_req.endpoint \in {"deploy", "advanced_deploy"} =>
            \A i \in At("create_repository") :
                /\ i < Len(d_trace) =>
                      /\ d_trace[i].out \in {"ok", "RepositoryAlreadyExistsException"}
                      /\ d_trace[i + 1].step = "docker_tag"
                /\ i + 1 < Len(d_trace) => d_trace[i + 2].step = "docker_push")

\* an advanced_deploy request pushed its image after create_repository had
\* answered that the repository exists
C9_Witness ==
    /\ d_req.endpoint = "advanced_deploy"
    /\ \E i \in At("create_repository") :
          d_trace[i].out = "RepositoryAlreadyExistsException"
    /\ \E i \in At("docker_push") : d_trace[i].out = "ok"

\* C10: deploy calls create_function with the pushed image URI; it calls
\* update_function_code, with the same URI, if and only if create_function
\* failed with a resource conflict; the success response carries the
\* FunctionArn returned by the call that succeeded and the pushed URI.
C10_CreateOrUpdate ==
    d_req.endpoint = "deploy" =>
        /\ \A i \in At("create_function") :
              /\ \E k \in At("docker_push") :
                    k < i /\ d_trace[k].out = "ok" /\ d_trace[k].arg = d_trace[i].arg
              /\ d_trace[i].out = "ResourceConflictException"
                    => \/ d_pc = "update_function_code"
                       \/ /\ i < Len(d_trace)
                          /\ d_trace[i + 1].step = "update_function_code"
                          /\ d_trace[i + 1].arg = d_trace[i].arg
        /\ \A j \in At("update_function_code") :
              /\ j > 1
              /\ d_trace[j - 1].step = "create_function"
              /\ d_trace[j - 1].out = "ResourceConflictException"
        /\ d_pc = "update_function_code" =>
              /\ d_trace[Len(d_trace)].step = "create_function"
              /\ d_trace[Len(d_trace)].out = "ResourceConflictException"
        /\ (d_pc = "done" /\ d_resp.status = 200) =>
              /\ \E k \in At("docker_push") : d_resp.image_uri = d_trace[k].arg
              /\ \E i \in At("create_function") \cup At("update_function_code") :
                    /\ d_trace[i].out = "ok"
                    /\ d_resp.lambda_arn = d_trace[i].ret[1]

\* a deploy request succeeded by updating an existing function; the later
\* update_function_configuration returned another ARN than the one reported
C10_Witness ==
    /\ d_req.endpoint = "deploy"
    /\ d_pc = "done"
    /\ d_resp.status = 200
    /\ \E i \in At("update_function_code") :
          d_resp.lambda_arn = d_trace[i].ret[1]
    /\ \E i \in At("update_function_configuration") :
          d_resp.lambda_arn # d_trace[i].ret[1]

\* C11: set_vpc_config and edit_vpc_config return the submitted configuration
\* and store nothing; get_vpc_config returns the fixed mock configuration
\* vpc-12345678 after any sequence of set and edit requests.
C11_VpcStateless ==
    /\ [][(d_req'.endpoint \in {"set_vpc_config", "edit_vpc_config"})
            => /\ d_resp'.status = 200
               /\ d_resp'.vpc_config = d_req'.vpc_config
               /\ files' = files
               /\ d_local' = NoLocals]_vars
    /\ [](d_req.endpoint = "get_vpc_config" =>
            /\ d_resp.status = 200
            /\ d_resp.vpc_config.vpc_id = "vpc-12345678"
            /\ d_resp.vpc_config.subnet_ids = <<"subnet-12345678", "subnet-87654321">>
            /\ d_resp.vpc_config.security_group_ids = <<"sg-12345678", "sg-87654321">>)

\* the mock configuration was returned right after another one had been set
C11_Witness ==
    /\ d_req.endpoint = "get_vpc_config"
    /\ d_req.after \in {"set_vpc_config", "edit_vpc_config"}
    /\ d_resp.vpc_config = mock_vpc_config

\* the image that the parameters and uploaded files of a request determine
OwnContext(req) ==
    [f \in FileNames |->
        CASE f = "Dockerfile" -> DockerfileContent(req.endpoint)
          [] f = "app.py" /\ req.endpoint = "deploy" -> <<"py", req.python_script>>
          [] f = "requirements.txt" /\ req.endpoint = "deploy" -> <<"req", 0>>
          [] f = "upload" /\ req.endpoint = "advanced_deploy" -> <<"upload", req.upload>>
          [] OTHER -> <<>>]

\* C12: the image built by docker build in a deploy or advanced_deploy
\* request is determined by that request's own parameters and uploaded files
\* only; files written by an earlier request are never part of it.
C12_RequestIsolation ==
    (/\ d_req.endpoint \in {"deploy", "advanced_deploy"}
     /\ \E i \in At("docker_build") : d_trace[i].out = "ok")
        => d_local.image = OwnContext(d_req)

\* every command and provider call made for the request so far succeeded
\* (an answer that sends the handler into the update branch counts)
AllSucceeded ==
    \A i \in 1..Len(d_trace) :
        \/ d_trace[i].out = "ok"
        \/ <<d_trace[i].step, d_trace[i].out>> \in OtherBranch

\* C13: if the docker daemon, the AWS CLI and every AWS call succeed,
\* advanced_deploy responds 'Advanced deployment successful' with the pushed
\* image URI and the ARN of the created or updated function.
C13_AdvancedDeploySucceeds ==
    (/\ d_req.endpoint = "advanced_deploy"
     /\ d_pc = "done"
     /\ AllSucceeded)
        => /\ d_resp.status = 200
           /\ d_resp.message = "Advanced deployment successful"
           /\ \E k \in At("docker_push") : d_resp.image_uri = d_trace[k].arg
           /\ \E i \in At("create_function") \cup At("update_function_code") :
                 /\ d_trace[i].out = "ok"
                 /\ d_resp.lambda_arn = d_trace[i].ret[1]

\* C14: if every command and provider call succeeds, deploy_multiple_functions
\* with number_of_functions = N >= 1 creates or updates the N functions
\* <prefix>-0 .. <prefix>-(N-1) and responds 'Deployed N functions
\* successfully'.
C14_DeployMultipleSucceeds ==
    (/\ d_req.endpoint = "deploy_multiple_functions"
     /\ d_req.service = "aws/deploy.py"
     /\ d_req.number_of_functions >= 1
     /\ d_pc = "done"
     /\ AllSucceeded)
        => /\ d_resp.status = 200
           /\ d_resp.message = <<"Deployed ", d_req.number_of_functions,
                                 " functions successfully">>
           /\ Cardinality(At("create_function")) = d_req.number_of_functions

\* the SNS notifications published while handling the request
Published == {i \in At("publish") : d_trace[i].out = "ok"}

\* C15: when every Lambda, CloudWatch Logs and CloudWatch call of an AWS
\* invoke_multiple_functions request with N functions succeeds, the response
\* is 200 'Invoked N functions successfully' with the N decoded payloads in
\* invocation order, and no SNS notification is published.
C15_InvokeMultipleSucceeds ==
    (/\ d_req.endpoint = "invoke_multiple_functions"
     /\ d_req.number_of_functions >= 1
     /\ d_pc = "done"
     /\ \A i \in 1..Len(d_trace) :
           d_trace[i].step \in {"invoke", "create_log_stream"} => d_trace[i].out = "ok"
     /\ Len(d_local.responses) = Cardinality(At("invoke")))
    => /\ d_resp.status = 200
       /\ d_resp.message = <<"Invoked ", d_req.number_of_functions,
                             " functions successfully">>
       /\ Len(d_resp.responses) = d_req.number_of_functions
       /\ \A i \in At("invoke") :
             d_resp.responses[d_trace[i].arg[1] + 1] = Decoded(d_trace[i].ret[1])
       /\ Published = {}

\* the invocations of the request, in the order they were made
InvokedIndexes == [n \in 1..Cardinality(At("invoke")) |->
                      d_trace[CHOOSE i \in At("invoke") :
                                 Cardinality({j \in At("invoke") : j <= i}) = n].arg[1]]

\* functions are invoked in strictly increasing index order, and the
\* handling of a function that fails is the last thing the loop does
StopsAtFirstFailure ==
    /\ \A n \in 1..Len(InvokedIndexes) : InvokedIndexes[n] = n - 1
    /\ (d_req.endpoint = "invoke_multiple_functions" /\ d_pc = "done"
        /\ d_local.exc # NoExc)
       => /\ d_resp.status = 500
          /\ \A i \in At("invoke") : d_trace[i].arg[1] <= d_local.i
          /\ \A i \in At("publish") : i = Len(d_trace) /\ d_trace[i].arg[1] = d_local.i

\* C16 as stated: a failure while handling function k publishes exactly one
\* SNS error notification.
C16_Original ==
    /\ StopsAtFirstFailure
    /\ (d_req.endpoint = "invoke_multiple_functions" /\ d_pc = "done"
        /\ d_local.exc # NoExc)
       => Cardinality(Published) = 1

\* C16: invoke_multiple_functions invokes the functions in strictly
\* increasing index order and stops at the first failure: when the handling
\* of function k fails, sns_client.publish is called exactly once for the
\* request (so at most one notification is published, none if that call
\* raises), the request ends with HTTP 500, and no function with an index
\* greater than k is invoked.
C16_StopsAtFirstFailure ==
    /\ StopsAtFirstFailure
    /\ (d_req.endpoint = "invoke_multiple_functions" /\ d_pc = "done"
        /\ d_local.exc # NoExc)
       => /\ Cardinality(At("publish")) = 1
          /\ Cardinality(Published) <= 1

\* function 0 of two was invoked, its handling failed, the notification
\* was published and function 1 was never invoked
C16_Witness ==
    /\ d_req.endpoint = "invoke_multiple_functions"
    /\ d_req.number_of_functions >= 2
    /\ d_pc = "done"
    /\ d_resp.status = 500
    /\ InvokedIndexes = <<0>>
    /\ Cardinality(Published) = 1

\* the functions the request deployed and did not delete again
GcpDeployed ==
    {d_trace[i].arg[1] : i \in {j \in At("gcloud_functions_deploy") :
        /\ d_trace[j].out = "ok"
        /\ ~\E k \in At("gcloud_functions_delete") :
               k > j /\ d_trace[k].arg = d_trace[j].arg}}

\* the indexes of the functions gcloud functions deploy was run for, in order
GcpAttempted == [n \in 1..Cardinality(At("gcloud_functions_deploy")) |->
                    d_trace[CHOOSE i \in At("gcloud_functions_deploy") :
                        Cardinality({j \in At("gcloud_functions_deploy") : j <= i}) = n
                           ].arg[1]]

\* C17: GCP deploy_multiple_functions deploys the functions in strictly
\* increasing index order and has no rollback: a failure at index k ends
\* the request with HTTP 500, functions 0..k-1 remain deployed, and no
\* function with an index greater than k is attempted.
C17_NoRollback ==
    d_req.endpoint = "gcp_deploy_multiple_functions"
    => /\ \A n \in 1..Len(GcpAttempted) : GcpAttempted[n] = n - 1
       /\ (d_pc = "done" /\ d_local.exc # NoExc)
          => /\ d_resp.status = 500
             /\ GcpDeployed = 0..(d_local.i - 1)
             /\ d_trace[Len(d_trace)].out # "ok"
             /\ \A i \in 1..Len(d_trace) :
                    /\ d_trace[i].step # "gcloud_functions_delete"
                    /\ d_trace[i].step # "gcloud_auth" => d_trace[i].arg[1] <= d_local.i

\* function 1 of three fails to deploy: function 0 stays deployed and
\* function 2 is never attempted
C17_Witness ==
    /\ d_req.endpoint = "gcp_deploy_multiple_functions"
    /\ d_req.number_of_functions = 3
    /\ d_pc = "done"
    /\ d_resp.status = 500
    /\ d_trace[Len(d_trace)].step = "gcloud_functions_deploy"
    /\ d_trace[Len(d_trace)].arg = <<1>>
    /\ GcpDeployed = {0}

(***************************************************************************)
(* Two deploy requests in one server process: properties                   *)
(***************************************************************************)
\* task t has started its handler and not finished it
Mid(t) == tasks[t].pc \notin {"none", "pending", "done"}

\* while a handler is between its first and its last step, the task of no
\* other request executes a step (a new request may only arrive)
NoOtherSteps ==
    \A t \in Tasks : Mid(t) =>
        \A u \in Tasks \ {t} :
            \/ tasks'[u] = tasks[u]
            \/ tasks[u].pc \in {"none", "done"} /\ tasks'[u].pc = "pending"

\* the image of task t was built from the files task t wrote
OwnFiles(t) ==
    /\ \A f \in WorkFiles : tasks[t].built[f].writer = t
    /\ tasks[t].built["app.py"].content = <<"py", tasks[t].req.python_script>>
    /\ tasks[t].built["requirements.txt"].content = <<"req", tasks[t].req.requirements>>
    /\ tasks[t].built["Dockerfile"].content = DockerfileContent("deploy")

\* C18: when two deploy requests are handled concurrently by one server
\* process, the steps of the two requests never interleave: the app.py,
\* requirements.txt and Dockerfile present at a request's docker build step
\* are the ones that request itself wrote.
C18_NoInterleaving ==
    /\ [][NoOtherSteps]_vars
    /\ [](\A t \in Tasks :
            /\ Mid(t) => running = t /\ \A u \in Tasks \ {t} : ~Mid(u)
            /\ tasks[t].built # NoBuild => OwnFiles(t))

\* two requests with different scripts are in flight: one has built its
\* image from its own files, the other one is still waiting for the event
\* loop
C18_Witness ==
    \E t \in Tasks, u \in Tasks :
        /\ tasks[t].pc = "rest"
        /\ OwnFiles(t)
        /\ tasks[u].pc = "pending"
        /\ tasks[u].req.python_script # tasks[t].req.python_script
        /\ tasks[u].built = NoBuild

====
